---------------------------- MODULE Spec2Model ----------------------------
(***************************************************************************)
(* The Hive "King of the Hill" server (src/unnamed/part_002): the lobby    *)
(* (seats, queue, bot game), the match state, the timers, and the rule      *)
(* functions the bot uses.                                                  *)
(*                                                                           *)
(* Representation.                                                           *)
(*  - A hex is a record [q, r, s]; a board key (the string "q,r") is the     *)
(*    pair <<q, r>>: hexToString drops s, stringToHex recomputes it.         *)
(*  - gameState.board is the array of [key, {hex, stack}] entries, here a    *)
(*    sequence of records [key, hex, stack]; a piece is [type, color] (the   *)
(*    id of a piece is never read by the server).                            *)
(*  - Player objects live in `heap` (object identity matters: handleWin's    *)
(*    delayed callback keeps references to them); a seat holds an object's   *)
(*    address, 0 for null.                                                   *)
(*  - gameState.log is kept as its length: its text is never read.           *)
(*  - Pending setTimeout callbacks are the sequence `timers`, in the order   *)
(*    they were armed; the setInterval move clock is the flag gameTimer.     *)
(***************************************************************************)
EXTENDS Integers, Sequences, FiniteSets, TLC

\* ------------------------------------------------------------------ bounds
MaxTurn == 4
MaxLog == 4
MaxWins == 1
MaxTimers == 2
MaxObj == 5
MaxQueue == 2

\* ------------------------------------------------------- program constants
WHITE == "WHITE"
BLACK == "BLACK"
NULL == "null"
Species == {"QUEEN", "SPIDER", "BEETLE", "GRASSHOPPER", "ANT"}
INITIAL_HAND == [t \in Species |->
                   CASE t = "QUEEN" -> 1
                     [] t = "SPIDER" -> 2
                     [] t = "BEETLE" -> 2
                     [] t = "GRASSHOPPER" -> 3
                     [] t = "ANT" -> 3]
COORD_LIMIT == 50

Abs(x) == IF x < 0 THEN -x ELSE x
Max2(a, b) == IF a >= b THEN a ELSE b
Opp(c) == IF c = WHITE THEN BLACK ELSE WHITE
Last(s) == s[Len(s)]
Front(s) == SubSeq(s, 1, Len(s) - 1)
RemoveAt(s, i) == SubSeq(s, 1, i - 1) \o SubSeq(s, i + 1, Len(s))
Range(s) == {s[i] : i \in 1..Len(s)}

\* ---------------------------------------------------------- hex utilities
stringToHex(str) == [q |-> str[1], r |-> str[2], s |-> -str[1] - str[2]]
hexToString(hex) == <<hex.q, hex.r>>

directions == << [q |-> 1, r |-> 0, s |-> -1], [q |-> 1, r |-> -1, s |-> 0],
                 [q |-> 0, r |-> -1, s |-> 1], [q |-> -1, r |-> 0, s |-> 1],
                 [q |-> -1, r |-> 1, s |-> 0], [q |-> 0, r |-> 1, s |-> -1] >>

\* direction is 0..5 as in the code
hexNeighbor(hex, direction) ==
  LET d == directions[(direction % 6) + 1]
  IN  [q |-> hex.q + d.q, r |-> hex.r + d.r, s |-> hex.s + d.s]

getNeighbors(hex) == [i \in 1..6 |-> hexNeighbor(hex, i - 1)]

areNeighbors(h1, h2) ==
  /\ Abs(h1.q - h2.q) <= 1
  /\ Abs(h1.r - h2.r) <= 1
  /\ Abs(h1.s - h2.s) <= 1
  /\ ~(h1.q = h2.q /\ h1.r = h2.r)

hexDistance(hexA, hexB) ==
  Max2(Max2(Abs(hexA.q - hexB.q), Abs(hexA.r - hexB.r)), Abs(hexA.s - hexB.s))

\* ------------------------------------------------------------ board access
Keys(board) == {board[i].key : i \in 1..Len(board)}
\* board.some(([k]) => k === key)
Occupied(board, key) == \E i \in 1..Len(board) : board[i].key = key
\* board.findIndex(x => x[0] === key): the first index, 0 for -1
findIndex(board, key) ==
  IF Occupied(board, key)
  THEN CHOOSE i \in 1..Len(board) :
         board[i].key = key /\ \A j \in 1..(i - 1) : board[j].key # key
  ELSE 0
TopOf(cell) == cell.stack[Len(cell.stack)]

\* canSlide with the gate always open
canSlide_GateOpen(from, to, board) == TRUE

canSlide(from, to, board) ==
  LET n1 == getNeighbors(from)
      common == {i \in 1..6 : areNeighbors(n1[i], to)}
      blockedCount == Cardinality({i \in common : Occupied(board, hexToString(n1[i]))})
  IN  blockedCount < 2

\* breadth-first closure of `seen` inside activeKeys
RECURSIVE HiveReach(_, _)
HiveReach(seen, activeKeys) ==
  LET more == {k \in activeKeys \ seen :
                 \E v \in seen : \E i \in 1..6 :
                   hexToString(getNeighbors(stringToHex(v))[i]) = k}
  IN  IF more = {} THEN seen ELSE HiveReach(seen \cup more, activeKeys)

\* ignoreHexStr is a key, or <<>> for undefined
isHiveConnected(board, ignoreHexStr) ==
  LET active == SelectSeq([i \in 1..Len(board) |-> board[i].key],
                          LAMBDA k : k # ignoreHexStr)
      activeKeys == Range(active)
  IN  IF Len(active) <= 1 THEN TRUE
      ELSE Cardinality(HiveReach({active[1]}, activeKeys)) = Len(active)

\* ------------------------------------------------------- movement generation
\* "Must maintain contact with Hive": some neighbour of n is occupied and is
\* not the source key hexStr
touchesHive(board, n, hexStr) ==
  \E i \in 1..6 :
    LET nnStr == hexToString(getNeighbors(n)[i])
    IN  Occupied(board, nnStr) /\ nnStr # hexStr

\* getSlideNeighbors of getPieceMoves: the hexes one slide step from curr
getSlideNeighbors(board, hexStr, curr) ==
  {n \in Range(getNeighbors(curr)) :
     /\ ~Occupied(board, hexToString(n))
     /\ canSlide(curr, n, board)
     /\ touchesHive(board, n, hexStr)}

BeetleMoves(board, hexStr, startHex) ==
  {hexToString(n) : n \in
     {n \in Range(getNeighbors(startHex)) :
        \/ Occupied(board, hexToString(n))
        \/ /\ canSlide(startHex, n, board)
           /\ touchesHive(board, n, hexStr)}}

\* the first empty hex from current in direction dir
RECURSIVE JumpEnd(_, _, _)
JumpEnd(board, current, dir) ==
  IF Occupied(board, hexToString(current))
  THEN JumpEnd(board, hexNeighbor(current, dir), dir)
  ELSE current

\* the GRASSHOPPER branch landing two cells away whatever lies beyond
GrasshopperMoves_OneHop(board, startHex) ==
  {hexToString(hexNeighbor(hexNeighbor(startHex, dir), dir)) :
     dir \in {d \in 0..5 : Occupied(board, hexToString(hexNeighbor(startHex, d)))}}

GrasshopperMoves(board, startHex) ==
  {hexToString(JumpEnd(board, hexNeighbor(startHex, dir), dir)) :
     dir \in {d \in 0..5 : Occupied(board, hexToString(hexNeighbor(startHex, d)))}}

\* search(curr, depth, path) of the SPIDER branch: the contact test of this
\* branch does not exclude the source
RECURSIVE SpiderSearch(_, _, _, _)
SpiderSearch(board, curr, depth, path) ==
  IF depth = 3 THEN {hexToString(curr)}
  ELSE LET candidates ==
             {n \in Range(getNeighbors(curr)) :
                /\ ~Occupied(board, hexToString(n))
                /\ hexToString(n) \notin path
                /\ canSlide(curr, n, board)
                /\ \E i \in 1..6 : Occupied(board, hexToString(getNeighbors(n)[i]))}
       IN  UNION {SpiderSearch(board, c, depth + 1, path \cup {hexToString(c)}) :
                    c \in candidates}

\* the ANT branch: breadth-first over slide steps; frontier holds the hexes
\* queued in one round, visited the keys seen so far (hexStr from the start)
RECURSIVE AntSearch(_, _, _, _)
AntSearch(board, hexStr, frontier, visited) ==
  LET found == UNION {getSlideNeighbors(board, hexStr, c) : c \in frontier}
      fresh == {n \in found : hexToString(n) \notin visited}
  IN  IF fresh = {} THEN visited
      ELSE AntSearch(board, hexStr, fresh, visited \cup {hexToString(n) : n \in fresh})

AntMoves(board, hexStr, startHex) ==
  AntSearch(board, hexStr, {startHex}, {hexStr}) \ {hexStr}

\* getPieceMoves without the One-Hive pre-check
getPieceMoves_NoPreCheck(board, hexStr) ==
  IF ~Occupied(board, hexStr) THEN {}
  ELSE LET cell == board[findIndex(board, hexStr)]
           piece == TopOf(cell)
           startHex == cell.hex
       IN  CASE piece.type = "QUEEN" ->
                  {hexToString(n) : n \in getSlideNeighbors(board, hexStr, startHex)}
             [] piece.type = "BEETLE" -> BeetleMoves(board, hexStr, startHex)
             [] piece.type = "GRASSHOPPER" -> GrasshopperMoves(board, startHex)
             [] piece.type = "SPIDER" -> SpiderSearch(board, startHex, 0, {hexStr})
             [] piece.type = "ANT" -> AntMoves(board, hexStr, startHex)
             [] OTHER -> {}

getPieceMoves(board, hexStr) ==
  IF ~Occupied(board, hexStr) THEN {}
  ELSE LET cell == board[findIndex(board, hexStr)]
           piece == TopOf(cell)
           startHex == cell.hex
       IN  IF Len(cell.stack) = 1 /\ ~isHiveConnected(board, hexStr) THEN {}
           ELSE CASE piece.type = "QUEEN" ->
                       {hexToString(n) : n \in getSlideNeighbors(board, hexStr, startHex)}
                  [] piece.type = "BEETLE" -> BeetleMoves(board, hexStr, startHex)
                  [] piece.type = "GRASSHOPPER" -> GrasshopperMoves(board, startHex)
                  [] piece.type = "SPIDER" -> SpiderSearch(board, startHex, 0, {hexStr})
                  [] piece.type = "ANT" -> AntMoves(board, hexStr, startHex)
                  [] OTHER -> {}

\* the key of the first cell whose stack holds color's queen, <<>> for null
getQueenHex(board, color) ==
  LET has == {i \in 1..Len(board) :
                \E j \in 1..Len(board[i].stack) :
                  board[i].stack[j].type = "QUEEN" /\ board[i].stack[j].color = color}
  IN  IF has = {} THEN <<>>
      ELSE board[CHOOSE i \in has : \A j \in has : i <= j].key

countOccupiedNeighbors(board, hexStr) ==
  Cardinality({i \in 1..6 :
                 Occupied(board, hexToString(getNeighbors(stringToHex(hexStr))[i]))})

\* ------------------------------------------------------ placement generation
\* getValidPlacements whose general case does not look at the enemy's cells
getValidPlacements_IgnoresEnemy(currentPlayer, board) ==
  IF Len(board) = 0 THEN {<<0, 0>>}
  ELSE
    LET myPieceCount ==
          Cardinality({i \in 1..Len(board) :
                         \E j \in 1..Len(board[i].stack) :
                           board[i].stack[j].color = currentPlayer})
    IN  IF myPieceCount = 0
        THEN {hexToString(n) : n \in
                {n \in UNION {Range(getNeighbors(board[i].hex)) : i \in 1..Len(board)} :
                   ~Occupied(board, hexToString(n))}}
        ELSE {hexToString(n) : n \in
                {n \in UNION {Range(getNeighbors(board[i].hex)) :
                                i \in {i \in 1..Len(board) :
                                         TopOf(board[i]).color = currentPlayer}} :
                   ~Occupied(board, hexToString(n))}}

getValidPlacements(currentPlayer, board) ==
  IF Len(board) = 0 THEN {<<0, 0>>}
  ELSE
    LET myPieceCount ==
          Cardinality({i \in 1..Len(board) :
                         \E j \in 1..Len(board[i].stack) :
                           board[i].stack[j].color = currentPlayer})
        enemyColor == Opp(currentPlayer)
        touchesEnemy(n) ==
          \E k \in 1..6 :
            LET nnStr == hexToString(getNeighbors(n)[k])
            IN  /\ Occupied(board, nnStr)
                /\ TopOf(board[findIndex(board, nnStr)]).color = enemyColor
    IN  IF myPieceCount = 0
        THEN {hexToString(n) : n \in
                {n \in UNION {Range(getNeighbors(board[i].hex)) : i \in 1..Len(board)} :
                   ~Occupied(board, hexToString(n))}}
        ELSE {hexToString(n) : n \in
                {n \in UNION {Range(getNeighbors(board[i].hex)) :
                                i \in {i \in 1..Len(board) :
                                         TopOf(board[i]).color = currentPlayer}} :
                   /\ ~Occupied(board, hexToString(n))
                   /\ ~touchesEnemy(n)}}

\* ----------------------------------------------------------- bot move list
\* a move is [action, piece, hex, from, to]; unused fields are "" and <<>>
PlaceMove(piece, hex) ==
  [action |-> "PLACE", piece |-> piece, hex |-> hex, from |-> <<>>, to |-> <<>>]
MoveMove(from, to) ==
  [action |-> "MOVE", piece |-> "", hex |-> <<>>, from |-> from, to |-> to]

\* generateAllMoves with movements listed whether or not the Queen is placed
generateAllMoves_MovesAnytime(currentPlayer, turnNumber, hand, board) ==
  LET canPlace == turnNumber = 1 \/ \E t \in Species : hand[t] > 0
      queenNotPlaced == hand["QUEEN"] > 0
      playerTurnIndex == (turnNumber + 1) \div 2
      mustPlaceQueen == playerTurnIndex = 4 /\ queenNotPlaced
      piecesToTry == IF mustPlaceQueen THEN {"QUEEN"}
                     ELSE {t \in Species : hand[t] > 0}
      placements ==
        IF canPlace
        THEN {PlaceMove(piece, spot) :
                piece \in piecesToTry, spot \in getValidPlacements(currentPlayer, board)}
        ELSE {}
      movements ==
        UNION {{MoveMove(board[i].key, dest) :
                  dest \in getPieceMoves(board, board[i].key)} :
               i \in {i \in 1..Len(board) : TopOf(board[i]).color = currentPlayer}}
  IN  placements \cup movements

generateAllMoves(currentPlayer, turnNumber, hand, board) ==
  LET canPlace == turnNumber = 1 \/ \E t \in Species : hand[t] > 0
      queenNotPlaced == hand["QUEEN"] > 0
      playerTurnIndex == (turnNumber + 1) \div 2
      mustPlaceQueen == playerTurnIndex = 4 /\ queenNotPlaced
      piecesToTry == IF mustPlaceQueen THEN {"QUEEN"}
                     ELSE {t \in Species : hand[t] > 0}
      placements ==
        IF canPlace
        THEN {PlaceMove(piece, spot) :
                piece \in piecesToTry, spot \in getValidPlacements(currentPlayer, board)}
        ELSE {}
      movements ==
        IF ~queenNotPlaced
        THEN UNION {{MoveMove(board[i].key, dest) :
                       dest \in getPieceMoves(board, board[i].key)} :
                    i \in {i \in 1..Len(board) : TopOf(board[i]).color = currentPlayer}}
        ELSE {}
  IN  placements \cup movements

\* ------------------------------------------------------------------- state
VARIABLES
  players,        \* [white, black]: address of the seated player object, 0 = null
  heap,           \* address -> player object [id, nickname, hand, wins, isBot]
  queue,          \* sequence of [id, nickname, wins]
  board,          \* gameState.board
  turnNumber,     \* gameState.turnNumber
  currentPlayer,  \* gameState.currentPlayer
  winner,         \* gameState.winner, NULL for null
  log,            \* gameState.log.length
  gameTimer,      \* TRUE while the setInterval of startTimer is armed
  botGame,        \* [active, humanPlayerId, humanNickname, humanColor]
  timers,         \* pending setTimeout callbacks, oldest first
  connected,      \* sockets that are connected
  last            \* what the last event was and how the server answered it

vars == <<players, heap, queue, board, turnNumber, currentPlayer, winner, log,
          gameTimer, botGame, timers, connected, last>>

Colors == {WHITE, BLACK}
OIDs == 1..MaxObj
BOT_ID == "bot"
BOT_NICKNAME == "BOT OPPONENT"
FreeObj == [id |-> "", nickname |-> "", hand |-> INITIAL_HAND, wins |-> 0, isBot |-> FALSE]
NoBotGame == [active |-> FALSE, humanPlayerId |-> NULL, humanNickname |-> NULL,
              humanColor |-> NULL]
\* winnerColor.toLowerCase(): the name of the seat
lower(color) == IF color = WHITE THEN "white" ELSE "black"

\* the server's state as one record, threaded through the handlers' statements
Cur == [players |-> players, heap |-> heap, queue |-> queue, board |-> board,
        turnNumber |-> turnNumber, currentPlayer |-> currentPlayer,
        winner |-> winner, log |-> log, gameTimer |-> gameTimer,
        botGame |-> botGame, timers |-> timers, ok |-> TRUE]

\* addresses something still refers to: the seats and the rotation closures
Refs(st) ==
  ({st.players.white, st.players.black}
     \cup {st.timers[i].winner : i \in 1..Len(st.timers)}
     \cup {st.timers[i].loser : i \in 1..Len(st.timers)}) \ {0}

\* Addresses carry no meaning: after each handler the referenced objects are
\* renumbered in the order seats and closures mention them, and the slots of
\* unreferenced (collected) objects return to FreeObj.
RefOrder(st) ==
  <<st.players.white, st.players.black>>
    \o [i \in 1..(2 * Len(st.timers)) |->
          IF i % 2 = 1 THEN st.timers[(i + 1) \div 2].winner
          ELSE st.timers[i \div 2].loser]
Renaming(order) ==
  LET refs == Range(order) \ {0}
      firstAt(a) == CHOOSE i \in 1..Len(order) :
                      order[i] = a /\ \A j \in 1..(i - 1) : order[j] # a
  IN  [a \in refs \cup {0} |->
         IF a = 0 THEN 0
         ELSE Cardinality({b \in refs : firstAt(b) < firstAt(a)}) + 1]
Renumber(st, renamed) ==
  [st EXCEPT
     !.players = [white |-> renamed[st.players.white],
                  black |-> renamed[st.players.black]],
     !.timers = [i \in 1..Len(st.timers) |->
                   [st.timers[i] EXCEPT !.winner = renamed[@], !.loser = renamed[@]]],
     !.heap = [o \in OIDs |->
                 IF \E a \in DOMAIN renamed : a # 0 /\ renamed[a] = o
                 THEN st.heap[CHOOSE a \in DOMAIN renamed : a # 0 /\ renamed[a] = o]
                 ELSE FreeObj]]
Gc(st) ==
  CHOOSE g \in {Renumber(st, renamed) : renamed \in {Renaming(RefOrder(st))}} : TRUE

\* players[seat] = obj, a newly created object (ok = FALSE when the model's
\* heap has no room left)
Put(st, seat, obj) ==
  LET st1 == [st EXCEPT !.players[seat] = 0]
      free == OIDs \ Refs(st1)
  IN  IF free = {} THEN [st EXCEPT !.ok = FALSE]
      ELSE LET a == CHOOSE x \in free : \A y \in free : x <= y
           IN  [st1 EXCEPT !.players[seat] = a, !.heap[a] = obj]

WithinBounds(st) ==
  /\ st.ok
  /\ Len(st.queue) <= MaxQueue
  /\ Len(st.timers) <= MaxTimers
  /\ \A o \in OIDs : st.heap[o].wins <= MaxWins

\* the handler's result becomes the next state
Becomes(st, ev) ==
  \E g \in {IF s1 = Cur THEN s1 ELSE Gc(s1) : s1 \in {st}} :
      /\ WithinBounds(g)
      /\ players' = g.players
      /\ heap' = g.heap
      /\ queue' = g.queue
      /\ board' = g.board
      /\ turnNumber' = g.turnNumber
      /\ currentPlayer' = g.currentPlayer
      /\ winner' = g.winner
      /\ log' = g.log
      /\ gameTimer' = g.gameTimer
      /\ botGame' = g.botGame
      /\ timers' = g.timers
      /\ last' = ev

\* the trace of an event kept in `last`: "rejected" for a game_action or a
\* forfeit_game the server refused, "dropped" for any other event without
\* effect, "done" otherwise
Ev(op, res) ==
  IF res \in {"dropped", "error", "rejected", "idle"}
  THEN IF op \in {"game_action", "forfeit_game"} THEN "rejected" ELSE "dropped"
  ELSE "done"

\* ------------------------------------------------------- helper functions
startTimer(st) == [st EXCEPT !.gameTimer = TRUE]

\* resetGame that leaves the colour to move as it is
resetGame_KeepsColor(st) ==
  LET seated == {st.players.white, st.players.black} \ {0}
  IN  startTimer([st EXCEPT
        !.board = <<>>,
        !.turnNumber = 1,
        !.winner = NULL,
        !.log = 1,
        !.heap = [o \in OIDs |-> IF o \in seated
                                 THEN [st.heap[o] EXCEPT !.hand = INITIAL_HAND]
                                 ELSE st.heap[o]]])

resetGame(st) ==
  LET seated == {st.players.white, st.players.black} \ {0}
  IN  startTimer([st EXCEPT
        !.board = <<>>,
        !.turnNumber = 1,
        !.currentPlayer = WHITE,
        !.winner = NULL,
        !.log = 1,
        !.heap = [o \in OIDs |-> IF o \in seated
                                 THEN [st.heap[o] EXCEPT !.hand = INITIAL_HAND]
                                 ELSE st.heap[o]]])

\* setTimeout(callback, 5000) of handleWin: the closure keeps winner and loser
RotationTimer(w, l) == [kind |-> "rotation", winner |-> w, loser |-> l, cur |-> FALSE]
\* setTimeout of scheduleBotMove; cur: botGame.botResponseTimer is this timer
BotTimer == [kind |-> "bot", winner |-> 0, loser |-> 0, cur |-> TRUE]

\* handleWin without clearInterval(gameTimer)
handleWin_ClockRuns(st, winnerColor) ==
  LET w == st.players[lower(winnerColor)]
      l == st.players[lower(Opp(winnerColor))]
  IN  [st EXCEPT
        !.winner = winnerColor,
        !.heap = IF w # 0 THEN [st.heap EXCEPT ![w].wins = @ + 1] ELSE st.heap,
        !.log = @ + 1,
        !.timers = Append(@, RotationTimer(w, l))]

handleWin(st, winnerColor) ==
  LET w == st.players[lower(winnerColor)]
      l == st.players[lower(Opp(winnerColor))]
  IN  [st EXCEPT
        !.gameTimer = FALSE,
        !.winner = winnerColor,
        !.heap = IF w # 0 THEN [st.heap EXCEPT ![w].wins = @ + 1] ELSE st.heap,
        !.log = @ + 1,
        !.timers = Append(@, RotationTimer(w, l))]

\* the callback handleWin armed, run with the closure's winner and loser
RotationCallback(st, w, l) ==
  LET seatedBlack(q, obj) == Put([st EXCEPT !.queue = q, !.players.white = w], "black", obj)
  IN  resetGame(
        IF Len(st.queue) > 0
        THEN LET q1 == IF l # 0
                       THEN Append(st.queue, [id |-> st.heap[l].id,
                                              nickname |-> st.heap[l].nickname,
                                              wins |-> 0])
                       ELSE st.queue
                 nextPlayer == Head(q1)
             IN  seatedBlack(Tail(q1),
                             [id |-> nextPlayer.id, nickname |-> nextPlayer.nickname,
                              hand |-> INITIAL_HAND, wins |-> nextPlayer.wins,
                              isBot |-> FALSE])
        ELSE IF l # 0
             THEN seatedBlack(st.queue,
                              [st.heap[l] EXCEPT !.hand = INITIAL_HAND, !.wins = 0])
             ELSE st)

\* scheduleBotMove overwrites botGame.botResponseTimer without clearing it
scheduleBotMove(st) ==
  [st EXCEPT !.timers =
     Append([i \in 1..Len(@) |-> [@[i] EXCEPT !.cur = FALSE]], BotTimer)]

\* clearTimeout(botGame.botResponseTimer)
clearBotResponseTimer(st) ==
  [st EXCEPT !.timers = SelectSeq(@, LAMBDA t : ~t.cur)]

isBotTurn(st) ==
  \/ st.botGame.humanColor = "white" /\ st.currentPlayer = BLACK
  \/ st.botGame.humanColor = "black" /\ st.currentPlayer = WHITE

\* ---------------------------------------------------------- board updates
\* push piece on the cell at key, or add the cell [key, {hex, stack: [piece]}]
PushPiece(b, key, hex, piece) ==
  LET existingIdx == findIndex(b, key)
  IN  IF existingIdx > 0
      THEN [b EXCEPT ![existingIdx].stack = Append(@, piece)]
      ELSE Append(b, [key |-> key, hex |-> hex, stack |-> <<piece>>])

\* pop the top piece of the cell at fromIdx (dropping an emptied cell) and
\* push it at key to
MovePiece(b, fromIdx, to) ==
  LET piece == TopOf(b[fromIdx])
      popped == IF Len(b[fromIdx].stack) = 1
                THEN RemoveAt(b, fromIdx)
                ELSE [b EXCEPT ![fromIdx].stack = Front(@)]
  IN  PushPiece(popped, to, stringToHex(to), piece)

\* ------------------------------------------------------------ end of turn
WhiteQueenSurrounded(b) ==
  getQueenHex(b, WHITE) # <<>> /\ countOccupiedNeighbors(b, getQueenHex(b, WHITE)) >= 6
BlackQueenSurrounded(b) ==
  getQueenHex(b, BLACK) # <<>> /\ countOccupiedNeighbors(b, getQueenHex(b, BLACK)) >= 6

\* the colour checkVictoryCondition hands to handleWin, NULL when it returns false
checkVictoryCondition(st) ==
  CASE WhiteQueenSurrounded(st.board) /\ BlackQueenSurrounded(st.board) ->
         Opp(st.currentPlayer)
    [] WhiteQueenSurrounded(st.board) /\ ~BlackQueenSurrounded(st.board) -> BLACK
    [] BlackQueenSurrounded(st.board) /\ ~WhiteQueenSurrounded(st.board) -> WHITE
    [] OTHER -> NULL

\* advanceTurn with the colour left as it is
advanceTurn_NoFlip(st) == startTimer([st EXCEPT !.turnNumber = @ + 1])

\* turnNumber++, the colour flips, the move clock restarts
advanceTurn(st) ==
  startTimer([st EXCEPT !.turnNumber = @ + 1, !.currentPlayer = Opp(@)])

endTurn(st) ==
  IF checkVictoryCondition(st) # NULL
  THEN handleWin(st, checkVictoryCondition(st))
  ELSE LET st1 == advanceTurn(st)
       IN  IF st1.botGame.active /\ st1.winner = NULL /\ isBotTurn(st1)
           THEN scheduleBotMove(st1)
           ELSE st1

\* --------------------------------------------------------- input validation
\* sanitizeNickname on the names the model sends: the empty name and a name
\* of one character are refused, surrounding blanks are trimmed
sanitizeNickname(nickname) ==
  CASE nickname = "" -> NULL
    [] nickname = "x" -> NULL
    [] nickname = " ann" -> "ann"
    [] OTHER -> nickname

\* a hex string is sent as the tuple of its comma-separated integers
isValidHexCoordinate(hexStr) ==
  /\ Len(hexStr) = 2
  /\ Abs(hexStr[1]) <= COORD_LIMIT
  /\ Abs(hexStr[2]) <= COORD_LIMIT

isValidPieceType(type) == type \in Species

\* an action field that was not sent: "" for type, <<>> for hex, hexObj
\* (a one-element tuple when sent), from and to, NoPiece for piece
NoPiece == [type |-> "", color |-> ""]

\* the seat colour of socket s, NULL when s holds no seat
pColorOf(st, s) ==
  IF st.players.white # 0 /\ st.heap[st.players.white].id = s THEN WHITE
  ELSE IF st.players.black # 0 /\ st.heap[st.players.black].id = s THEN BLACK
  ELSE NULL

HumanObj(id, nickname) ==
  [id |-> id, nickname |-> nickname, hand |-> INITIAL_HAND, wins |-> 0, isBot |-> FALSE]
BotObj ==
  [id |-> BOT_ID, nickname |-> BOT_NICKNAME, hand |-> INITIAL_HAND, wins |-> 0, isBot |-> TRUE]

\* ------------------------------------------------------------ socket events
\* checkSocketRateLimit refused the event: every handler returns at once
RateLimited(s) ==
  /\ s \in connected
  /\ last' = Ev("rate_limit", "dropped")
  /\ UNCHANGED <<players, heap, queue, board, turnNumber, currentPlayer, winner,
                 log, gameTimer, botGame, timers, connected>>

handleBotGameInterruption(st, newPlayerColor, newPlayer) ==
  LET st1 == Put(clearBotResponseTimer(st), newPlayerColor, newPlayer)
  IN  resetGame([st1 EXCEPT !.botGame = NoBotGame, !.log = @ + 1])

nicknameInUse(st, cleanNickname) ==
  \/ st.players.white # 0 /\ st.heap[st.players.white].nickname = cleanNickname
  \/ st.players.black # 0 /\ st.heap[st.players.black].nickname = cleanNickname
  \/ \E i \in 1..Len(st.queue) : st.queue[i].nickname = cleanNickname

JoinGame(s, nickname) ==
  /\ s \in connected
  /\ UNCHANGED connected
  /\ LET cleanNickname == sanitizeNickname(nickname)
         user == HumanObj(s, cleanNickname)
     IN  IF cleanNickname = NULL \/ nicknameInUse(Cur, cleanNickname)
         THEN Becomes(Cur, Ev("join_game", "error"))
         ELSE IF botGame.active
         THEN Becomes(handleBotGameInterruption(
                        Cur, IF botGame.humanColor = "white" THEN "black" ELSE "white",
                        user),
                      Ev("join_game", "interrupt"))
         ELSE IF players.white = 0
         THEN Becomes(Put(Cur, "white", user), Ev("join_game", "white"))
         ELSE IF players.black = 0
         THEN Becomes(resetGame(Put(Cur, "black", user)), Ev("join_game", "black"))
         ELSE Becomes([Cur EXCEPT !.queue = Append(@, [id |-> s,
                                                      nickname |-> cleanNickname,
                                                      wins |-> 0])],
                      Ev("join_game", "queued"))

\* humanColor is the outcome of Math.random() < 0.5
JoinGameBot(s, nickname, humanColor) ==
  /\ s \in connected
  /\ UNCHANGED connected
  /\ LET cleanNickname == sanitizeNickname(nickname)
         humanUser == HumanObj(s, cleanNickname)
     IN  IF cleanNickname = NULL
         THEN Becomes(Cur, Ev("join_game_bot", "error"))
         ELSE IF Len(queue) > 0
         THEN Becomes(Cur, Ev("join_game_bot", "rejected"))
         ELSE LET st1 == [Cur EXCEPT !.botGame =
                            [active |-> TRUE, humanPlayerId |-> s,
                             humanNickname |-> nickname, humanColor |-> humanColor]]
                  st2 == IF humanColor = "white"
                         THEN Put(Put(st1, "white", humanUser), "black", BotObj)
                         ELSE Put(Put(st1, "white", BotObj), "black", humanUser)
                  st3 == resetGame(st2)
              IN  Becomes(IF humanColor = "black" THEN scheduleBotMove(st3) ELSE st3,
                          Ev("join_game_bot", "accepted"))

\* the PLACE branch of game_action, after the turn and winner guards
PlaceAction(st, pColor, action) ==
  IF action.piece = NoPiece \/ action.hex = <<>> \/ action.hexObj = <<>> THEN st
  ELSE IF ~isValidHexCoordinate(action.hex) THEN st
  ELSE IF ~isValidPieceType(action.piece.type) THEN st
  ELSE IF action.piece.color # pColor THEN st
  ELSE LET p == st.players[lower(pColor)]
       IN  IF st.heap[p].hand[action.piece.type] > 0
           THEN endTurn([st EXCEPT
                  !.heap[p].hand[action.piece.type] = @ - 1,
                  !.board = PushPiece(@, action.hex, action.hexObj[1], action.piece),
                  !.log = @ + 1])
           ELSE st

\* the MOVE branch without the test of the top piece's owner
MoveAction_AnyTop(st, pColor, action) ==
  IF action.from = <<>> \/ action.to = <<>> THEN st
  ELSE IF ~isValidHexCoordinate(action.from) \/ ~isValidHexCoordinate(action.to) THEN st
  ELSE LET fromIdx == findIndex(st.board, action.from)
       IN  IF fromIdx = 0 THEN st
           ELSE endTurn([st EXCEPT
                  !.board = MovePiece(@, fromIdx, action.to),
                  !.log = @ + 1])

\* the MOVE branch of game_action
MoveAction(st, pColor, action) ==
  IF action.from = <<>> \/ action.to = <<>> THEN st
  ELSE IF ~isValidHexCoordinate(action.from) \/ ~isValidHexCoordinate(action.to) THEN st
  ELSE LET fromIdx == findIndex(st.board, action.from)
       IN  IF fromIdx = 0 THEN st
           ELSE IF Len(st.board[fromIdx].stack) = 0 THEN st
           ELSE IF TopOf(st.board[fromIdx]).color # pColor THEN st
           ELSE endTurn([st EXCEPT
                  !.board = MovePiece(@, fromIdx, action.to),
                  !.log = @ + 1])

\* game_action without the return on a winner
gameAction_NoWinnerGuard(st, s, action) ==
  LET pColor == pColorOf(st, s)
  IN  IF pColor = NULL \/ pColor # st.currentPlayer THEN st
      ELSE IF action.type = "PLACE" THEN PlaceAction(st, pColor, action)
      ELSE IF action.type = "MOVE" THEN MoveAction(st, pColor, action)
      ELSE st

\* what game_action makes of the state
gameAction(st, s, action) ==
  LET pColor == pColorOf(st, s)
  IN  IF pColor = NULL \/ pColor # st.currentPlayer THEN st
      ELSE IF st.winner # NULL THEN st
      ELSE IF action.type = "PLACE" THEN PlaceAction(st, pColor, action)
      ELSE IF action.type = "MOVE" THEN MoveAction(st, pColor, action)
      ELSE st

\* the log grows by one on every commit and on nothing else game_action does
GameAction(s, action) ==
  /\ s \in connected
  /\ UNCHANGED connected
  /\ \E st \in {gameAction(Cur, s, action)} :
       Becomes(st, Ev("game_action",
                      IF st.log = log THEN "dropped"
                      ELSE IF st.winner # NULL THEN "won" ELSE "committed"))

ForfeitGame(s) ==
  /\ s \in connected
  /\ UNCHANGED connected
  /\ LET pColor == pColorOf(Cur, s)
     IN  IF pColor = NULL \/ winner # NULL
         THEN Becomes(Cur, Ev("forfeit_game", "dropped"))
         ELSE Becomes(handleWin([Cur EXCEPT !.log = @ + 1], Opp(pColor)),
                      Ev("forfeit_game", "forfeited"))

\* disconnect whose bot-game teardown leaves the seats as they are
Disconnect_KeepsSeats(s) ==
  /\ s \in connected
  /\ connected' = connected \ {s}
  /\ IF botGame.active /\ botGame.humanPlayerId = s
     THEN Becomes([clearBotResponseTimer(Cur) EXCEPT
                     !.botGame = NoBotGame,
                     !.log = @ + 1],
                  Ev("disconnect", "bot_game_ended"))
     ELSE IF players.white # 0 /\ heap[players.white].id = s
     THEN Becomes([handleWin([Cur EXCEPT !.log = @ + 1], BLACK) EXCEPT
                     !.players.white = 0],
                  Ev("disconnect", "white_left"))
     ELSE IF players.black # 0 /\ heap[players.black].id = s
     THEN Becomes([handleWin([Cur EXCEPT !.log = @ + 1], WHITE) EXCEPT
                     !.players.black = 0],
                  Ev("disconnect", "black_left"))
     ELSE Becomes([Cur EXCEPT !.queue = SelectSeq(@, LAMBDA u : u.id # s)],
                  Ev("disconnect", "left"))

Disconnect(s) ==
  /\ s \in connected
  /\ connected' = connected \ {s}
  /\ IF botGame.active /\ botGame.humanPlayerId = s
     THEN Becomes([clearBotResponseTimer(Cur) EXCEPT
                     !.botGame = NoBotGame,
                     !.log = @ + 1,
                     !.players = [white |-> 0, black |-> 0]],
                  Ev("disconnect", "bot_game_ended"))
     ELSE IF players.white # 0 /\ heap[players.white].id = s
     THEN Becomes([handleWin([Cur EXCEPT !.log = @ + 1], BLACK) EXCEPT
                     !.players.white = 0],
                  Ev("disconnect", "white_left"))
     ELSE IF players.black # 0 /\ heap[players.black].id = s
     THEN Becomes([handleWin([Cur EXCEPT !.log = @ + 1], WHITE) EXCEPT
                     !.players.black = 0],
                  Ev("disconnect", "black_left"))
     ELSE Becomes([Cur EXCEPT !.queue = SelectSeq(@, LAMBDA u : u.id # s)],
                  Ev("disconnect", "left"))

\* ------------------------------------------------------------------ timers
\* the clock's callback with the colour left as it is
TimeoutPass_KeepsColor ==
  /\ gameTimer
  /\ timers = <<>>
  /\ UNCHANGED connected
  /\ Becomes([Cur EXCEPT !.turnNumber = @ + 1, !.log = @ + 1], Ev("timeout", "passed"))

\* The interval of startTimer finds 30 s elapsed since lastMoveTime.  Every
\* setTimeout of the server is shorter (3.5 s and 5 s) and is armed no earlier
\* than lastMoveTime was last set, so none is pending when the 30 s are over.
TimeoutPass ==
  /\ gameTimer
  /\ timers = <<>>
  /\ UNCHANGED connected
  /\ Becomes([Cur EXCEPT !.currentPlayer = Opp(@), !.turnNumber = @ + 1, !.log = @ + 1],
             Ev("timeout", "passed"))

\* The 5 s callback of handleWin fires.  Callbacks armed earlier have shorter
\* or equal delays, so it fires only once it is the oldest pending one.
Rotation ==
  /\ timers # <<>>
  /\ Head(timers).kind = "rotation"
  /\ UNCHANGED connected
  /\ Becomes(RotationCallback([Cur EXCEPT !.timers = Tail(@)],
                              Head(timers).winner, Head(timers).loser),
             Ev("rotation", "rotated"))

\* executeBotMove once getBotMove has returned botMove (NoMove for null)
NoMove == [action |-> "NONE", piece |-> "", hex |-> <<>>, from |-> <<>>, to |-> <<>>]

botTurnEnds(st) ==
  LET st1 == advanceTurn(st)
  IN  IF st1.botGame.active /\ isBotTurn(st1) /\ st1.winner = NULL
      THEN scheduleBotMove(st1)
      ELSE st1

executeBotMove(st, botMove) ==
  LET b == st.players[lower(st.currentPlayer)]
  IN  IF botMove = NoMove
      THEN [st EXCEPT !.log = @ + 1, !.turnNumber = @ + 1, !.currentPlayer = Opp(@)]
      ELSE IF botMove.action = "PLACE"
      THEN IF st.heap[b].hand[botMove.piece] > 0
           THEN botTurnEnds([st EXCEPT
                  !.heap[b].hand[botMove.piece] = @ - 1,
                  !.board = PushPiece(@, botMove.hex, stringToHex(botMove.hex),
                                      [type |-> botMove.piece, color |-> st.currentPlayer]),
                  !.log = @ + 1])
           ELSE st
      ELSE IF findIndex(st.board, botMove.from) > 0
           THEN botTurnEnds([st EXCEPT
                  !.board = MovePiece(@, findIndex(st.board, botMove.from), botMove.to),
                  !.log = @ + 1])
           ELSE st

\* The moves getBotMove can return: it returns null exactly when
\* generateAllMoves is empty and otherwise the member of generateAllMoves its
\* minimax scores best; which member that is, is left open.
getBotMove(cp, tn, hand, b) ==
  IF generateAllMoves(cp, tn, hand, b) = {} THEN {NoMove}
  ELSE generateAllMoves(cp, tn, hand, b)

BotRuns(st) ==
  /\ st.botGame.active
  /\ st.winner = NULL
  /\ st.players[lower(st.currentPlayer)] # 0
  /\ st.heap[st.players[lower(st.currentPlayer)]].isBot

\* The cells the model's boards lie in, and whether a move keeps to the given
\* species and cells (a pass always does).
Reach == 4
AllCells == {<<q, r>> : q \in -Reach..Reach, r \in -Reach..Reach}
Within(m, types, cells) ==
  \/ m = NoMove
  \/ m.action = "PLACE" /\ m.piece \in types /\ m.hex \in cells
  \/ m.action = "MOVE" /\ m.from \in cells /\ m.to \in cells

\* A pending callback of scheduleBotMove fires (i is its place in timers) and
\* getBotMove answers with a move of the given species within the given cells.
BotTimerFires(i, types, cells) ==
  /\ i \in 1..Len(timers)
  /\ timers[i].kind = "bot"
  /\ UNCHANGED connected
  /\ \E st \in {[Cur EXCEPT !.timers = RemoveAt(@, i)]} :
       IF ~BotRuns(st)
       THEN Becomes(st, Ev("bot", "idle"))
       ELSE \E botMove \in {m \in getBotMove(currentPlayer, turnNumber,
                                              heap[players[lower(currentPlayer)]].hand,
                                              board) : Within(m, types, cells)} :
              Becomes(executeBotMove(st, botMove),
                      Ev("bot", IF botMove = NoMove THEN "passed" ELSE "committed"))

\* ------------------------------------------------------------------ inputs
Sessions == {"s1", "s2", "s3"}
\* the nickname each socket sends
NameOf(s) == CASE s = "s1" -> "ann" [] s = "s2" -> "bob" [] OTHER -> "cy"

Place(type, color, hex) ==
  [type |-> "PLACE", piece |-> [type |-> type, color |-> color], hex |-> hex,
   hexObj |-> <<stringToHex(hex)>>, from |-> <<>>, to |-> <<>>]
Move(from, to) ==
  [type |-> "MOVE", piece |-> NoPiece, hex |-> <<>>, hexObj |-> <<>>,
   from |-> from, to |-> to]

\* well-formed actions over a set of hexes and a set of species
ActionsOver(hexes, types) ==
  {Place(t, c, h) : t \in types, c \in Colors, h \in hexes}
    \cup {Move(f, t) : f \in hexes, t \in hexes}

\* actions the server has to refuse whoever sends them
MalformedActions ==
  { [type |-> "GAME_OVER", piece |-> NoPiece, hex |-> <<>>, hexObj |-> <<>>,
     from |-> <<>>, to |-> <<>>],
    [Place("ANT", WHITE, <<0, 0>>) EXCEPT !.hexObj = <<>>],
    [Place("ANT", BLACK, <<0, 0>>) EXCEPT !.piece = NoPiece],
    Place("ANT", WHITE, <<COORD_LIMIT + 1, 0>>),
    Place("ANT", BLACK, <<0, -COORD_LIMIT - 1>>),
    Place("WORM", WHITE, <<0, 0>>),
    Place("WORM", BLACK, <<0, 0>>),
    Move(<<0, 0>>, <<>>),
    Move(<<0, 0>>, <<0, COORD_LIMIT + 1>>),
    Move(<<0>>, <<0, 0>>) }

\* -------------------------------------------------------- the specification
Init ==
  /\ players = [white |-> 0, black |-> 0]
  /\ heap = [o \in OIDs |-> FreeObj]
  /\ queue = <<>>
  /\ board = <<>>
  /\ turnNumber = 1
  /\ currentPlayer = WHITE
  /\ winner = NULL
  /\ log = 0
  /\ gameTimer = FALSE
  /\ botGame = NoBotGame
  /\ timers = <<>>
  /\ connected = Sessions
  /\ last = "listen"

\* What the sockets of S do in the lobby, what they send during a match
\* over the actions A, and the bot games they start.  The turn counter is
\* followed up to cap and the log up to MaxLog entries; in the Terminal
\* window, where actions and forfeits add nothing to the log, they are
\* followed whatever its length.
Room(cap) == turnNumber < cap /\ (log < MaxLog \/ winner # NULL)
Lobby(S) ==
  \/ \E s \in S : RateLimited(s)
  \/ \E s \in S : JoinGame(s, NameOf(s))
  \/ \E s \in S : JoinGame(s, "")
  \/ \E s \in S : (log < MaxLog \/ winner # NULL) /\ ForfeitGame(s)
  \/ \E s \in S : log < MaxLog /\ Disconnect(s)
  \/ Rotation
Match(S, A, cap) ==
  \/ \E s \in S : \E a \in A : Room(cap) /\ GameAction(s, a)
  \/ Room(cap) /\ TimeoutPass
Bot(S, cap) ==
  \/ \E s \in S, c \in {"white", "black"} : JoinGameBot(s, NameOf(s), c)
  \/ \E i \in 1..MaxTimers : Room(cap) /\ BotTimerFires(i, Species, AllCells)

\* two humans play a match over two cells that are not adjacent
MatchHexes == {<<0, 0>>, <<3, 0>>}
MatchTypes == {"QUEEN", "ANT"}
Next ==
  \/ Lobby({"s1", "s2"})
  \/ Match({"s1", "s2"}, ActionsOver(MatchHexes, MatchTypes) \cup MalformedActions, MaxTurn)

Spec == Init /\ [][Next]_vars

\* one human plays the bot over two cells; a second human may join and play
BotHexes == {<<0, 0>>, <<1, 0>>}
BotTypes == {"QUEEN"}
NextBot ==
  \/ Bot({"s1"}, MaxTurn)
  \/ Match({"s1", "s2"}, ActionsOver(BotHexes, BotTypes), MaxTurn)
  \/ \E s \in {"s1"} : (log < MaxLog \/ winner # NULL) /\ ForfeitGame(s)
  \/ \E s \in {"s1"} : log < MaxLog /\ Disconnect(s)
  \/ \E s \in {"s2"} : JoinGame(s, NameOf(s))
  \/ Rotation

SpecBot == Init /\ [][NextBot]_vars

\* three humans come and go; the seated ones play their Queens on one cell
LobbyHexes == {<<0, 0>>}
LobbyTypes == {"QUEEN"}
NextLobby ==
  \/ Lobby(Sessions)
  \/ Match(Sessions, ActionsOver(LobbyHexes, LobbyTypes), MaxTurn)

SpecLobby == Init /\ [][NextLobby]_vars

\* A bot game in which the human, seated Black, builds turn by turn a ring
\* around its own Queen on 1,0 and the bot, which opens on 0,0, keeps to Queen,
\* Ant and Grasshopper and to six cells on the far side of the ring.
SurroundTurns == 12
SurroundPlaces ==
  [t \in 1..SurroundTurns |->
     CASE t = 2 -> {Place("QUEEN", BLACK, <<1, 0>>)}
       [] t = 4 -> {Place("ANT", BLACK, <<2, 0>>)}
       [] t = 6 -> {Place("ANT", BLACK, <<2, -1>>)}
       [] t = 8 -> {Place("ANT", BLACK, <<1, -1>>)}
       [] t = 10 -> {Place("BEETLE", BLACK, <<1, 1>>)}
       [] OTHER -> {}]
SurroundCells == {<<0, 0>>, <<-1, 0>>, <<-1, 1>>, <<0, 1>>, <<-2, 1>>, <<0, -1>>}
SurroundTypes == {"QUEEN", "ANT", "GRASSHOPPER"}
NextSurround ==
  \/ ~botGame.active /\ JoinGameBot("s1", NameOf("s1"), "black")
  \/ \E a \in SurroundPlaces[turnNumber] :
       turnNumber < SurroundTurns /\ GameAction("s1", a)
  \/ \E i \in 1..MaxTimers :
       turnNumber < SurroundTurns /\ BotTimerFires(i, SurroundTypes, SurroundCells)

SpecSurround == Init /\ [][NextSurround]_vars

\* Two humans are seated and the clock passes turns; each may place Ants on
\* two adjacent cells.  The turn counter is followed up to ClockTurns.
ClockTurns == 10
ClockHexes == {<<0, 0>>, <<1, 0>>}
ClockTypes == {"ANT"}
NextClock ==
  \/ \E s \in {"s1", "s2"} : JoinGame(s, NameOf(s))
  \/ \E s \in {"s1", "s2"} : \E a \in ActionsOver(ClockHexes, ClockTypes) :
       turnNumber < ClockTurns /\ GameAction(s, a)
  \/ turnNumber < ClockTurns /\ TimeoutPass

SpecClock == Init /\ [][NextClock]_vars

\* Two humans are seated and play pieces of every species on three cells
\* adjacent to one another, so that every board is connected.
PieceHexes == {<<0, 0>>, <<1, 0>>, <<0, 1>>}
NextPieces ==
  \/ \E s \in {"s1", "s2"} : JoinGame(s, NameOf(s))
  \/ \E s \in {"s1", "s2"} : \E a \in ActionsOver(PieceHexes, Species) :
       Room(MaxTurn) /\ GameAction(s, a)

SpecPieces == Init /\ [][NextPieces]_vars

\* Two humans are seated and place and move Queens, Beetles, Spiders and Ants
\* on the cell 0,0 and on the two cells that flank the step from 0,0 to 1,0.
\* The turn counter is followed up to SlideTurns.
SlideTurns == 5
SlideHexes == {<<0, 0>>, <<0, 1>>, <<1, -1>>}
SlideTypes == {"QUEEN", "BEETLE", "SPIDER", "ANT"}
NextSlide ==
  \/ \E s \in {"s1", "s2"} : JoinGame(s, NameOf(s))
  \/ \E s \in {"s1", "s2"} : \E a \in ActionsOver(SlideHexes, SlideTypes) :
       turnNumber < SlideTurns /\ GameAction(s, a)

SpecSlide == Init /\ [][NextSlide]_vars

\* ------------------------------------------------------------------ claims
\* the colour whose seat holds socket s, and the hand of that seat
SeatOf(s) == pColorOf(Cur, s)
HandOf(color) == heap[players[lower(color)]].hand
\* game_action of s with action a was committed in this step
Committed(s, a) == GameAction(s, a) /\ last' = "done"
MatchActions == ActionsOver(MatchHexes, MatchTypes)

\* C1: One-Hive invariant: in every reachable state the occupied cells of the
\* board form a single connected component (isHiveConnected with no ignored
\* coordinate is true).
C1_OneHive == isHiveConnected(board, <<>>)

\* C2: a PLACE is committed only if the sender's hand holds at least one of
\* the species and the target is a member of getValidPlacements for the
\* sender's colour on the current board.
C2_PlaceOnlyValid ==
  [][\A s \in {"s1", "s2"} : \A a \in MatchActions :
       (a.type = "PLACE" /\ Committed(s, a))
         => /\ HandOf(SeatOf(s))[a.piece.type] >= 1
            /\ a.hex \in getValidPlacements(SeatOf(s), board)]_vars

\* C3: a MOVE is committed only if the source cell exists, its top piece is
\* the sender's and the destination is a member of getPieceMoves of the source
\* on the current board.
C3_MoveOnlyValid ==
  [][\A s \in {"s1", "s2"} : \A a \in MatchActions :
       (a.type = "MOVE" /\ Committed(s, a))
         => /\ Occupied(board, a.from)
            /\ TopOf(board[findIndex(board, a.from)]).color = SeatOf(s)
            /\ a.to \in getPieceMoves(board, a.from)]_vars

\* C4: Queen opening: no MOVE is committed for a player whose Queen is not on
\* the board, and on a player's 4th personal turn with the Queen still in hand
\* only PLACE Queen is committed.
C4_QueenOpening ==
  [][\A s \in {"s1", "s2"} : \A a \in MatchActions :
       Committed(s, a)
         => /\ a.type = "MOVE" => getQueenHex(board, SeatOf(s)) # <<>>
            /\ ((turnNumber + 1) \div 2 = 4 /\ HandOf(SeatOf(s))["QUEEN"] > 0)
                 => (a.type = "PLACE" /\ a.piece.type = "QUEEN")]_vars

\* pieces of a species and colour on the board, all stack levels counted
OnBoard(type, color) ==
  Cardinality({ij \in {<<i, j>> : i \in 1..Len(board), j \in 1..3} :
                 /\ ij[2] <= Len(board[ij[1]].stack)
                 /\ board[ij[1]].stack[ij[2]].type = type
                 /\ board[ij[1]].stack[ij[2]].color = color})

\* C5: hand conservation: for each seated player every species count of the
\* hand lies between 0 and its initial count, and hand plus the pieces of the
\* seat's colour on the board make the initial hand (11 pieces in all).
C5_HandConservation ==
  \A c \in Colors :
    players[lower(c)] # 0 =>
      \A t \in Species :
        /\ HandOf(c)[t] \in 0..INITIAL_HAND[t]
        /\ HandOf(c)[t] + OnBoard(t, c) = INITIAL_HAND[t]

\* the steps that commit an action: a human's PLACE or MOVE, the bot's action
\* or pass, the clock's PASS
BotActions == ActionsOver(BotHexes, BotTypes)
HumanCommits == \E s \in {"s1", "s2"} : \E a \in BotActions : Committed(s, a)
BotCommits == \E i \in 1..MaxTimers : BotTimerFires(i, Species, AllCells) /\ last' = "done"
Advances == turnNumber' = turnNumber + 1 /\ currentPlayer' = Opp(currentPlayer)
NewMatch == turnNumber' = 1 /\ currentPlayer' = WHITE /\ board' = <<>>

\* C7: turn alternation: every committed action (PLACE, MOVE, bot action, bot
\* pass, timeout PASS) that does not end the match is made for the current
\* colour at turn N and leaves the turn at N + 1 with the opposite colour, and
\* between commits turn and colour stay as they are until a new match starts,
\* so the next commit is at N + 1 by the opposite colour.
C7_TurnAlternation ==
  [][IF last' = "done" /\ (HumanCommits \/ BotCommits \/ TimeoutPass)
     THEN /\ \A s \in {"s1", "s2"} : \A a \in BotActions :
               Committed(s, a) => SeatOf(s) = currentPlayer
          /\ winner' = NULL => Advances
     ELSE UNCHANGED <<turnNumber, currentPlayer>> \/ NewMatch]_vars

\* the scenario of C7: White's Queen on 0,0, Black's Queen on 1,0, both
\* commits accepted
C7_Witness ==
  /\ Len(board) = 2
  /\ board[1].key = <<0, 0>> /\ board[1].stack = <<[type |-> "QUEEN", color |-> WHITE]>>
  /\ board[2].key = <<1, 0>> /\ board[2].stack = <<[type |-> "QUEEN", color |-> BLACK]>>
  /\ turnNumber = 3
  /\ currentPlayer = WHITE
  /\ winner = NULL
  /\ last = "done"

\* the causes of rejection C8 lists, read on the state the action arrives in
AllActions == MatchActions \cup MalformedActions
OutOfBounds(hex) == \E i \in 1..Len(hex) : Abs(hex[i]) > COORD_LIMIT
Malformed(a) ==
  \/ a.type \notin {"PLACE", "MOVE"}
  \/ a.type = "PLACE" /\ (a.piece = NoPiece \/ a.hex = <<>> \/ a.hexObj = <<>>)
  \/ a.type = "MOVE" /\ (a.from = <<>> \/ a.to = <<>> \/ Len(a.from) # 2 \/ Len(a.to) # 2)
Refused(s, a) ==
  \/ SeatOf(s) = NULL
  \/ SeatOf(s) # currentPlayer
  \/ winner # NULL
  \/ Malformed(a)
  \/ a.type = "PLACE" /\ OutOfBounds(a.hex)
  \/ a.type = "MOVE" /\ (OutOfBounds(a.from) \/ OutOfBounds(a.to))
  \/ a.type = "PLACE" /\ a.piece.type \notin Species
  \/ a.type = "PLACE" /\ a.piece.color # SeatOf(s)
  \/ a.type = "PLACE" /\ HandOf(SeatOf(s))[a.piece.type] = 0
  \/ a.type = "MOVE" /\ ~Occupied(board, a.from)
  \/ a.type = "MOVE" /\ TopOf(board[findIndex(board, a.from)]).color # SeatOf(s)
Snapshot == <<board, heap, turnNumber, currentPlayer, winner, log, players, queue>>

\* C8: a game_action refused for one of the listed causes, and a forfeit_game
\* refused because its sender is not seated or the match is Terminal, leave
\* board, hands, turnNumber, currentPlayer, winner, log, seats and queue as
\* they were: a step that changes any of them is not the step of such an
\* event.
C8_RejectionKeepsState ==
  [][\/ UNCHANGED Snapshot /\ last' = "rejected"
     \/ /\ \A s \in {"s1", "s2"} : \A a \in AllActions :
               Refused(s, a) => ~GameAction(s, a)
        /\ \A s \in {"s1", "s2"} :
               (SeatOf(s) = NULL \/ winner # NULL) => ~ForfeitGame(s)]_vars

\* a refused event has just left a match in progress, with pieces on the
\* board, as it was
C8_Witness ==
  /\ last = "rejected"
  /\ players.white # 0 /\ players.black # 0
  /\ winner = NULL
  /\ Len(board) = 2
  /\ turnNumber = 3

\* C9: King-of-the-Hill rotation with a non-empty queue: when the rotation
\* callback of a finished match runs, the winner of that match holds the White
\* seat, the loser is the last element of the queue, the identity that was at
\* the head of the queue holds the Black seat, and the other queued identities
\* keep their order.
C9_KingOfTheHill ==
  [][(Rotation /\ Len(queue) > 0)
       => LET w == Head(timers).winner
              l == Head(timers).loser
          IN  /\ w # 0 /\ players'.white # 0
              /\ heap'[players'.white].id = heap[w].id
              /\ l # 0 /\ queue' # <<>>
              /\ Last(queue').id = heap[l].id
              /\ players'.black # 0
              /\ heap'[players'.black].id = Head(queue).id
              /\ Front(queue') = Tail(queue)]_vars

\* a human other than socket s holds a seat
HumanOpponent(s) ==
  \E c \in {"white", "black"} :
    players[c] # 0 /\ ~heap[players[c]].isBot /\ heap[players[c]].id # s
TwoHumansSeated ==
  \A c \in {"white", "black"} : players[c] # 0 /\ ~heap[players[c]].isBot

\* C10: join_game_bot is accepted only when the queue is empty and no human
\* opponent is seated; a request that arrives while two humans are seated
\* leaves the seats, the board and the match state as they were.
C10_BotRequest ==
  [][\A c \in {"white", "black"} :
       JoinGameBot("s1", NameOf("s1"), c)
         => /\ last' = "done" => (Len(queue) = 0 /\ ~HumanOpponent("s1"))
            /\ TwoHumansSeated
                 => UNCHANGED <<players, heap, board, turnNumber, currentPlayer,
                                winner, log, botGame>>]_vars

\* color's Queen lies in a cell whose six neighbours are all occupied
QueenSurrounded(color) ==
  \E i \in 1..Len(board) :
    /\ \E j \in 1..Len(board[i].stack) :
         board[i].stack[j] = [type |-> "QUEEN", color |-> color]
    /\ \A d \in 0..5 : Occupied(board, hexToString(hexNeighbor(board[i].hex, d)))

\* C6: victory is detected on every commit, a human's or the bot's: no state
\* with winner = null has a surrounded Queen on the board.
C6_VictoryDetected ==
  winner = NULL => ~QueenSurrounded(WHITE) /\ ~QueenSurrounded(BLACK)

\* both seats hold humans with full hands and the match has just been reset
FreshHumanMatch ==
  /\ board' = <<>> /\ turnNumber' = 1 /\ currentPlayer' = WHITE /\ winner' = NULL
  /\ \A c \in {"white", "black"} :
       /\ players'[c] # 0
       /\ ~heap'[players'[c]].isBot
       /\ heap'[players'[c]].hand = INITIAL_HAND

\* C11: a join_game accepted while a bot match is active (the first one or a
\* rematch after a rotation) replaces the bot's seat: the human who was
\* playing keeps a seat, the joiner holds the other, the bot match is no
\* longer active and the match is reset with two humans.
C11_BotInterruption ==
  [][\A s \in Sessions :
       (botGame.active /\ last' = "done" /\ JoinGame(s, NameOf(s)))
         => /\ ~botGame'.active
            /\ FreshHumanMatch
            /\ \E c \in {"white", "black"} :
                 heap'[players'[c]].id = botGame.humanPlayerId
            /\ \E c \in {"white", "black"} : heap'[players'[c]].id = s]_vars

\* a new match starts in this step: empty board, turn 1, WHITE to move, no
\* winner, both seats filled with full hands
MatchStarts ==
  /\ board' = <<>> /\ turnNumber' = 1 /\ currentPlayer' = WHITE /\ winner' = NULL
  /\ \A c \in {"white", "black"} :
       players'[c] # 0 /\ heap'[players'[c]].hand = INITIAL_HAND
SeatEmpty == players.white = 0 \/ players.black = 0

\* C12: with no bot match active, an accepted join_game fills the White seat
\* if it is empty and otherwise the Black seat if that is empty, leaving the
\* other seat and the queue alone; when that join leaves both seats filled a
\* new match starts in the same step; the joiner is appended to the queue only
\* when both seats were filled.
C12_SeatAssignment ==
  [][\A s \in Sessions :
       (~botGame.active /\ last' = "done" /\ JoinGame(s, NameOf(s)))
         => /\ players.white = 0
                 => /\ players'.white # 0 /\ heap'[players'.white].id = s
                    /\ (players.black = 0) = (players'.black = 0)
                    /\ queue' = queue
            /\ (players.white # 0 /\ players.black = 0)
                 => /\ players'.black # 0 /\ heap'[players'.black].id = s
                    /\ players'.white # 0
                    /\ heap'[players'.white].id = heap[players.white].id
                    /\ queue' = queue
            /\ (SeatEmpty /\ players'.white # 0 /\ players'.black # 0) => MatchStarts
            /\ ~SeatEmpty
                 => /\ queue' = Append(queue, [id |-> s, nickname |-> NameOf(s), wins |-> 0])
                    /\ UNCHANGED <<board, turnNumber, currentPlayer, winner>>]_vars

\* C13: the timeout PASS the move clock commits flips currentPlayer, adds
\* exactly 1 to turnNumber, appends one log line and keeps the clock armed
\* from the new anchor; board, hands, seats, queue and winner stay as they
\* were.
C13_TimeoutPass ==
  [][TimeoutPass
       => /\ Advances
          /\ log' = log + 1
          /\ gameTimer'
          /\ UNCHANGED <<board, heap, players, queue, winner, botGame, timers>>]_vars

\* the clock has passed White's first turn of a match between two seated
\* players: nothing is on the board and it is Black's turn 2
C13_Witness ==
  /\ last = "done"
  /\ players.white # 0 /\ players.black # 0
  /\ board = <<>>
  /\ turnNumber = 2
  /\ currentPlayer = BLACK
  /\ winner = NULL
  /\ log = 2
  /\ gameTimer

\* C14: each player places the Queen no later than the 4th personal turn:
\* whenever a match is running and it is the turn of a colour whose personal
\* turn index ceil(turnNumber / 2) is greater than 4, that colour's Queen is
\* on the board.
C14_QueenByFourthTurn ==
  \A c \in Colors :
    (winner = NULL /\ players.white # 0 /\ players.black # 0
       /\ currentPlayer = c /\ (turnNumber + 1) \div 2 > 4)
      => OnBoard("QUEEN", c) >= 1

\* C15: on every reachable board, for every occupied cell A and every B in
\* getPieceMoves(A), whatever the species of the top piece at A, the board
\* obtained by popping the top piece at A and pushing it at B is
\* hive-connected.
C15_MovesKeepHive ==
  \A A \in Keys(board) : \A B \in getPieceMoves(board, A) :
    isHiveConnected(MovePiece(board, findIndex(board, A), B), <<>>)

\* C16: when a seated human disconnects while a match between two seated
\* humans is running (winner = null), the match becomes Terminal with the
\* opposite colour as winner and the win counter of the opponent, who keeps
\* the seat, grows by 1.
C16_DisconnectForfeits ==
  [][\A s \in Sessions :
       (TwoHumansSeated /\ winner = NULL /\ SeatOf(s) # NULL /\ Disconnect(s))
         => LET opp == lower(Opp(SeatOf(s)))
            IN  /\ winner' = Opp(SeatOf(s))
                /\ players'[opp] # 0
                /\ heap'[players'[opp]].id = heap[players[opp]].id
                /\ heap'[players'[opp]].wins = heap[players[opp]].wins + 1]_vars

\* C17: during the Terminal window (winner set, rotation pending) every
\* PLACE, MOVE and forfeit, whoever sends it, is ignored: board, hands and win
\* counters, turnNumber, currentPlayer, winner, seats, queue and the pending
\* callbacks stay as they were.
C17_TerminalIgnores ==
  [][(winner # NULL /\ \E s \in {"s1", "s2"} :
         ForfeitGame(s) \/ \E a \in AllActions : GameAction(s, a))
       => UNCHANGED <<board, heap, turnNumber, currentPlayer, winner, log, players,
                      queue, timers>>]_vars

\* an action or forfeit has just been refused in the Terminal window of a
\* match between two seated players with pieces on the board
C17_Witness ==
  /\ last = "rejected"
  /\ winner # NULL
  /\ \E i \in 1..Len(timers) : timers[i].kind = "rotation"
  /\ players.white # 0 /\ players.black # 0
  /\ Len(board) >= 1

\* C18: while the match is Terminal (winner set) the move clock is not armed
\* and no turn is taken: until the next match starts, board, turnNumber and
\* currentPlayer stay as they are, and a bot-move callback that fires commits
\* nothing.
C18_TerminalPaused ==
  [][winner # NULL
       => /\ ~gameTimer
          /\ ~TimeoutPass
          /\ winner' # NULL => UNCHANGED <<board, turnNumber, currentPlayer>>
          /\ \A i \in 1..MaxTimers :
               BotTimerFires(i, Species, AllCells)
                 => UNCHANGED <<board, heap, turnNumber, currentPlayer, winner, log,
                                players>>]_vars

\* a bot-move callback armed before the win has fired in the Terminal window
\* of a bot match and done nothing
C18_Witness ==
  /\ last = "dropped"
  /\ winner # NULL
  /\ botGame.active
  /\ ~gameTimer
  /\ timers # <<>>
  /\ \A i \in 1..Len(timers) : timers[i].kind = "rotation"

\* C19: no timer armed for an outgoing match changes state after the seat
\* change: a rotation callback that fires once a later match has been seated
\* (winner is null again) leaves seats, hands, board and turn alone; the move
\* clock commits no PASS on a table whose seats were both vacated; a bot-move
\* callback that fires once the bot match is over commits nothing.
C19_StaleTimers ==
  [][/\ (Rotation /\ winner = NULL)
          => UNCHANGED <<players, heap, board, turnNumber, currentPlayer, log>>
     /\ TimeoutPass => (players.white # 0 \/ players.black # 0)
     /\ \A i \in 1..MaxTimers :
          (~botGame.active /\ BotTimerFires(i, Species, AllCells))
            => UNCHANGED <<players, heap, board, turnNumber, currentPlayer, log>>]_vars

\* C20: in an active bot match, a rematch after a rotation included, every
\* committed human action that leaves the match running with the bot's seat
\* to move leaves a bot-move callback scheduled.
C20_BotScheduled ==
  [][\A s \in {"s1", "s2"} : \A a \in BotActions :
       (last' = "done" /\ botGame.active /\ Committed(s, a)
          /\ botGame'.active /\ winner' = NULL
          /\ players'[lower(currentPlayer')] # 0
          /\ heap'[players'[lower(currentPlayer')]].isBot)
         => \E i \in 1..Len(timers') : timers'[i].kind = "bot" /\ timers'[i].cur]_vars

\* the actions that are legal for colour c in the current state: placements
\* <<species, coordinate>> and movements <<from, to>>
LegalPlacements(c) ==
  {th \in Species \X getValidPlacements(c, board) :
     /\ HandOf(c)[th[1]] >= 1
     /\ ((turnNumber + 1) \div 2 = 4 /\ OnBoard("QUEEN", c) = 0) => th[1] = "QUEEN"}
LegalMovements(c) ==
  IF OnBoard("QUEEN", c) = 0 THEN {}
  ELSE UNION {{<<board[i].key, to>> : to \in getPieceMoves(board, board[i].key)} :
              i \in {i \in 1..Len(board) : TopOf(board[i]).color = c}}
\* a bot-move callback takes the bot's turn in this step
BotTakesTurn ==
  /\ BotRuns(Cur)
  /\ \E i \in 1..Len(timers) : timers[i].kind = "bot"
  /\ turnNumber' = turnNumber + 1

\* C21: every action the bot commits is legal for a human in the same state:
\* a PLACE of a species in hand on a coordinate of getValidPlacements (the
\* Queen only, on the 4th personal turn with the Queen unplaced), a MOVE only
\* with the Queen placed, of a top piece of its own to a member of
\* getPieceMoves; the bot passes only when no such action exists.
C21_BotPlaysLegally ==
  [][BotTakesTurn
       => LET c == currentPlayer
              hand1 == heap'[players'[lower(c)]].hand
          IN  \/ /\ LegalPlacements(c) = {} /\ LegalMovements(c) = {}
                 /\ board' = board /\ hand1 = HandOf(c)
              \/ \E th \in LegalPlacements(c) :
                   /\ board' = PushPiece(board, th[2], stringToHex(th[2]),
                                         [type |-> th[1], color |-> c])
                   /\ hand1 = [HandOf(c) EXCEPT ![th[1]] = @ - 1]
              \/ \E ft \in LegalMovements(c) :
                   /\ board' = MovePiece(board, findIndex(board, ft[1]), ft[2])
                   /\ hand1 = HandOf(c)]_vars

\* the bot, playing White, has placed three Ants on its first three turns and
\* its Queen on the fourth
C21_Witness ==
  /\ last = "done"
  /\ botGame.active
  /\ turnNumber = 8
  /\ players.white # 0 /\ heap[players.white].isBot
  /\ HandOf(WHITE)["ANT"] = 0
  /\ HandOf(WHITE)["QUEEN"] = 0
  /\ OnBoard("ANT", WHITE) = 3
  /\ OnBoard("QUEEN", WHITE) = 1

\* C22: when the human of an active bot match disconnects, the bot match is
\* no longer active, the White and the Black seat are both empty, winner is
\* what it was (none is declared) and no player object has another win count
\* than before.
C22_BotTeardown ==
  [][\A s \in Sessions :
       (botGame.active /\ botGame.humanPlayerId = s /\ Disconnect(s))
         => /\ ~botGame'.active
            /\ players'.white = 0 /\ players'.black = 0
            /\ winner' = winner
            /\ \A o \in OIDs :
                 \/ heap'[o] = FreeObj
                 \/ \E p \in OIDs : /\ heap[p].id = heap'[o].id
                                    /\ heap[p].wins = heap'[o].wins]_vars

\* the human has left a bot match that had pieces on the board: the table is
\* empty and no winner was declared
C22_Witness ==
  /\ last = "done"
  /\ "s1" \notin connected
  /\ ~botGame.active
  /\ players.white = 0 /\ players.black = 0
  /\ winner = NULL
  /\ Len(board) >= 1

\* C23: a committed action that leaves both Queens with all six neighbours
\* occupied makes the opponent of the side that made it the winner: never the
\* mover, never a draw, never nobody.
C23_DoubleSurround ==
  [][(board' # board /\ QueenSurrounded(WHITE)' /\ QueenSurrounded(BLACK)')
       => winner' = Opp(currentPlayer)]_vars

\* C24: every accepted action, a forfeit included, comes from the session
\* seated on the colour that is to move: a PLACE, MOVE or forfeit_game sent by
\* anyone else changes nothing.
C24_OnlyCurrentSeat ==
  [][\A s \in {"s1", "s2"} :
       (last' = "done"
          /\ (ForfeitGame(s) \/ \E a \in MatchActions : GameAction(s, a)))
         => SeatOf(s) = currentPlayer]_vars

\* C25: an internal invariant violation on the live board (the hive is
\* disconnected, or a stored cell has an empty stack) ends the match as a
\* draw: no state with such a board has another winner than DRAW.
C25_DrawOnViolation ==
  (~isHiveConnected(board, <<>>) \/ \E i \in 1..Len(board) : board[i].stack = <<>>)
    => winner = "DRAW"

\* C26: stack discipline: every stored cell has a non-empty stack and every
\* piece above the bottom of a stack is a Beetle (no PLACE lands on an
\* occupied coordinate and no non-Beetle MOVE does).
C26_StackDiscipline ==
  \A i \in 1..Len(board) :
    /\ board[i].stack # <<>>
    /\ \A k \in 2..Len(board[i].stack) : board[i].stack[k].type = "BEETLE"

\* what the branch of the top piece's species yields from hexStr, the
\* connectivity of the hive left aside
BranchMoves(b, hexStr) ==
  LET cell == b[findIndex(b, hexStr)]
      startHex == cell.hex
      type == TopOf(cell).type
  IN  CASE type = "QUEEN" ->
             {hexToString(n) : n \in getSlideNeighbors(b, hexStr, startHex)}
        [] type = "BEETLE" -> BeetleMoves(b, hexStr, startHex)
        [] type = "GRASSHOPPER" -> GrasshopperMoves(b, startHex)
        [] type = "SPIDER" -> SpiderSearch(b, startHex, 0, {hexStr})
        [] type = "ANT" -> AntMoves(b, hexStr, startHex)
        [] OTHER -> {}
\* the occupied coordinates minus A are not connected
CutsHive(b, A) == ~isHiveConnected(b, A)

\* C27: on every reachable board, for every source whose stack has exactly
\* one piece, getPieceMoves is empty whenever the occupied coordinates minus
\* the source are not connected; for a source whose stack has more than one
\* piece the move set is the one of the species' branch, whatever the
\* connectivity.
C27_OneHivePreCheck ==
  \A A \in Keys(board) :
    LET cell == board[findIndex(board, A)]
    IN  /\ (Len(cell.stack) = 1 /\ CutsHive(board, A)) => getPieceMoves(board, A) = {}
        /\ Len(cell.stack) > 1 => getPieceMoves(board, A) = BranchMoves(board, A)
\* a connected board on which a single piece that its branch would let move
\* holds the hive together
C27_Witness ==
  /\ isHiveConnected(board, <<>>)
  /\ \E A \in Keys(board) :
       /\ Len(board[findIndex(board, A)].stack) = 1
       /\ CutsHive(board, A)
       /\ BranchMoves(board, A) # {}

\* C28: Freedom-to-Move scenario: on a board with pieces at 0,0 and 1,0 and
\* a Queen at 0,1, the slide of the Queen from 0,1 to 1,1 is rejected: 1,1 is
\* not in getPieceMoves(board, 0,1).
C28_GateScenario ==
  ( /\ Occupied(board, <<0, 0>>)
    /\ Occupied(board, <<1, 0>>)
    /\ Occupied(board, <<0, 1>>)
    /\ Len(board[findIndex(board, <<0, 1>>)].stack) = 1
    /\ TopOf(board[findIndex(board, <<0, 1>>)]).type = "QUEEN" )
    => <<1, 1>> \notin getPieceMoves(board, <<0, 1>>)

\* the keys of the six cells around key k
NeighborKeys(k) == {hexToString(getNeighbors(stringToHex(k))[i]) : i \in 1..6}
\* both cells adjacent to A and to B are occupied
Pinched(b, A, B) ==
  Cardinality({k \in NeighborKeys(A) \cap NeighborKeys(B) : Occupied(b, k)}) >= 2
\* a step at ground level from A to the adjacent empty B through an open gate
GatedStep(b, A, B) == B \in NeighborKeys(A) /\ ~Occupied(b, B) /\ ~Pinched(b, A, B)

\* C29: Freedom-to-Move gate: on every reachable board every slide step that
\* getPieceMoves generates goes to an adjacent empty cell with fewer than two
\* of the two common neighbours occupied: the Queen's step and the Beetle's
\* step to an empty cell from the source, the last step of every Ant
\* destination from the source or another Ant destination, and each of the
\* three steps of a path to every Spider destination.
C29_FreedomToMove ==
  \A A \in Keys(board) :
    LET type == TopOf(board[findIndex(board, A)]).type
        M == getPieceMoves(board, A)
    IN  /\ type = "QUEEN" => \A B \in M : GatedStep(board, A, B)
        /\ type = "BEETLE" => \A B \in M : Occupied(board, B) \/ GatedStep(board, A, B)
        /\ type = "ANT" => \A B \in M : \E X \in M \cup {A} : GatedStep(board, X, B)
        /\ type = "SPIDER" =>
             \A B \in M : \E Y \in NeighborKeys(B) : \E X \in NeighborKeys(Y) :
               /\ GatedStep(board, A, X)
               /\ GatedStep(board, X, Y)
               /\ GatedStep(board, Y, B)
\* a piece free to leave its cell stands next to an empty cell in contact
\* with the hive, both cells flanking the step are occupied, and the step is
\* not among its moves
C29_Witness ==
  \E A \in Keys(board) : \E B \in NeighborKeys(A) :
    /\ TopOf(board[findIndex(board, A)]).type \in {"QUEEN", "BEETLE", "ANT", "SPIDER"}
    /\ Len(board[findIndex(board, A)].stack) > 1 \/ isHiveConnected(board, A)
    /\ ~Occupied(board, B)
    /\ touchesHive(board, stringToHex(B), A)
    /\ Pinched(board, A, B)
    /\ getPieceMoves(board, A) # {}
    /\ B \notin getPieceMoves(board, A)

\* C30: slide contact: on every reachable board every empty destination that
\* getPieceMoves returns for a Queen, an Ant, a Spider or a Beetle is adjacent
\* to at least one occupied coordinate other than the piece's source.
C30_SlideContact ==
  \A A \in Keys(board) :
    TopOf(board[findIndex(board, A)]).type \in {"QUEEN", "ANT", "SPIDER", "BEETLE"}
      => \A B \in getPieceMoves(board, A) :
           \/ Occupied(board, B)
           \/ \E k \in NeighborKeys(B) : k # A /\ Occupied(board, k)

\* the colour of the top piece of the cell at key k
TopColor(b, k) == TopOf(b[findIndex(b, k)]).color
\* color has a piece somewhere on the board
HasPiece(b, color) ==
  \E i \in 1..Len(b) : \E j \in 1..Len(b[i].stack) : b[i].stack[j].color = color
\* the empty coordinates next to an occupied cell
Fringe(b) == {k \in UNION {NeighborKeys(o) : o \in Keys(b)} : ~Occupied(b, k)}
\* what the placement rule allows color on board b
PlacementRule(color, b) ==
  IF b = <<>> THEN {<<0, 0>>}
  ELSE IF ~HasPiece(b, color) THEN Fringe(b)
  ELSE {k \in Fringe(b) :
          /\ \E n \in NeighborKeys(k) : Occupied(b, n) /\ TopColor(b, n) = color
          /\ \A n \in NeighborKeys(k) : Occupied(b, n) => TopColor(b, n) # Opp(color)}

Walk(A, d, n) ==
  LET dir == hexToString(hexNeighbor(stringToHex(<<0, 0>>), d))
  IN  <<A[1] + n * dir[1], A[2] + n * dir[2]>>
\* the first empty cell behind a run of one or more occupied cells, in each
\* direction from A
JumpRule(b, A) ==
  {B \in {Walk(A, d, n) : d \in 0..5, n \in 2..(Len(b) + 1)} :
     \E d \in 0..5 : \E n \in 2..(Len(b) + 1) :
       /\ B = Walk(A, d, n)
       /\ ~Occupied(b, B)
       /\ \A i \in 1..(n - 1) : Occupied(b, Walk(A, d, i))}
\* the One-Hive pre-check lets the piece on A leave
MayLeave(b, A) == Len(b[findIndex(b, A)].stack) > 1 \/ isHiveConnected(b, A)

PendingRotations(tm) == Cardinality({i \in 1..Len(tm) : tm[i].kind = "rotation"})

\* C33: Terminal is stable and counted once: a winner, once set, keeps its
\* value until the reset of the next match clears it, and while it is set no
\* win counter grows and exactly one rotation stays pending, whatever arrives
\* in the window, disconnects of seated players included.
C33_TerminalOnce ==
  [][winner # NULL =>
       \/ winner' = NULL
       \/ /\ winner' = winner
          /\ PendingRotations(timers') = 1
          /\ \A o \in OIDs : heap[o] # FreeObj /\ heap'[o] # FreeObj
                               => heap'[o].wins = heap[o].wins]_vars

\* the session identifiers the seats (bots left aside) and the queue hold
SeatedIds ==
  {heap[players[c]].id : c \in {c \in {"white", "black"} :
                                  players[c] # 0 /\ ~heap[players[c]].isBot}}
QueuedIds == {queue[i].id : i \in 1..Len(queue)}

\* C34: no ghost participants: every non-bot identity in the White seat, the
\* Black seat or the queue belongs to a session that is still connected.
C34_NoGhosts == SeatedIds \cup QueuedIds \subseteq connected


\* C35: no lost participants: a session that holds a seat or a queue entry
\* and is still connected after the step holds a seat or a queue entry after
\* it; no join_game, join_game_bot or rotation callback removes a connected
\* human from both the seats and the queue.
C35_NoLostParticipants ==
  [][\A s \in Sessions :
       (s \in SeatedIds \cup QueuedIds /\ s \in connected')
         => s \in SeatedIds' \cup QueuedIds']_vars


\* the positions a session identifier holds among the two seats and the
\* queue entries
PositionsOf(s) ==
  Cardinality({c \in {"white", "black"} : players[c] # 0 /\ heap[players[c]].id = s})
    + Cardinality({i \in 1..Len(queue) : queue[i].id = s})

\* C36: identity uniqueness: in every reachable state a session identifier
\* holds at most one position among the White seat, the Black seat and the
\* queue entries.
C36_IdentityUnique == \A s \in Sessions : PositionsOf(s) <= 1


\* C37: bot-match bookkeeping: whenever botGame.active holds, exactly one
\* seat holds the bot, the other seat holds the session botGame.humanPlayerId,
\* and botGame.humanColor names the seat the human holds.
C37_BotBookkeeping ==
  botGame.active =>
    \E c \in {"white", "black"} :
      LET o == IF c = "white" THEN "black" ELSE "white"
      IN  /\ players[c] # 0 /\ heap[players[c]].isBot
          /\ players[o] # 0 /\ ~heap[players[o]].isBot
          /\ heap[players[o]].id = botGame.humanPlayerId
          /\ botGame.humanColor = o


\* C38: no commit in Waiting: while a seat is empty, board, turnNumber and
\* currentPlayer change only by the reset that starts a match; a lone seated
\* player places no piece and the clock passes no turn.
C38_NoCommitInWaiting ==
  [][SeatEmpty => (UNCHANGED <<board, turnNumber, currentPlayer>> \/ NewMatch)]_vars


\* White is to move exactly at the odd turns, counted from 1
TurnParity == turnNumber >= 1 /\ (currentPlayer = WHITE <=> turnNumber % 2 = 1)

\* C39: turn parity: currentPlayer is WHITE exactly when turnNumber is odd
\* and turnNumber is at least 1, before and after every step, and turnNumber
\* changes only by +1, with no winner set by the step, or by a reset to 1.
C39_TurnParity ==
  [][/\ TurnParity /\ TurnParity'
     /\ \/ turnNumber' = turnNumber
        \/ turnNumber' = turnNumber + 1 /\ winner' = NULL
        \/ turnNumber' = 1 /\ winner' = NULL /\ board' = <<>>]_vars
\* a match with pieces on the board ended at an even turn, Black to move, and
\* the rotation that resets it to turn 1 is pending
C39_Witness ==
  /\ winner # NULL /\ turnNumber % 2 = 0 /\ currentPlayer = BLACK /\ board # <<>>
  /\ PendingRotations(timers) >= 1


\* a is b with some entries left out, the others in the order of b
RECURSIVE IsSubseq(_, _)
IsSubseq(a, b) ==
  IF a = <<>> THEN TRUE
  ELSE IF b = <<>> THEN FALSE
  ELSE IF Head(a) = Head(b) THEN IsSubseq(Tail(a), Tail(b))
  ELSE IsSubseq(a, Tail(b))

\* C40: queue fairness: the queue is first in, first out.  A rotation with a
\* waiting queue promotes its head to the Black seat and moves every other
\* entry one place forward, so that the entry at place n is promoted by the
\* n-th rotation; any other step appends one entry behind the others or
\* removes entries without reordering the rest; a waiting identity gets a
\* seat only as the head of the queue, and the seat is Black.
C40_QueueFifo ==
  [][/\ IF Rotation
        THEN \/ queue = <<>> /\ queue' = <<>>
             \/ /\ queue # <<>>
                /\ players'.black # 0
                /\ heap'[players'.black].id = Head(queue).id
                /\ Len(queue') >= Len(queue) - 1
                /\ \A i \in 2..Len(queue) : queue'[i - 1] = queue[i]
        ELSE \/ IsSubseq(queue', queue)
             \/ queue' # <<>> /\ Front(queue') = queue
     /\ \A s \in QueuedIds \ SeatedIds :
          s \in SeatedIds'
            => /\ s = Head(queue).id
               /\ players'.black # 0 /\ heap'[players'.black].id = s]_vars
=============================================================================
